---- MODULE Spec2Model ----
(***************************************************************************)
(* Model of graphrag/logger/progress.py: the Progress snapshot, the        *)
(* ProgressTicker (its __call__ and done methods) and the generator        *)
(* progress_iterable.                                                      *)
(*                                                                         *)
(* Two specifications share the variables:                                 *)
(*   Spec      one ProgressTicker driven by arbitrary __call__(n) and      *)
(*             done() calls;                                               *)
(*   SpecIter  one generator made by progress_iterable(...), resumed by    *)
(*             its consumer with next().                                   *)
(* Everything the program makes observable (log records, callback          *)
(* invocations with their snapshot, values yielded, exceptions reaching    *)
(* the caller) is appended to trace in the order the code produces it.     *)
(***************************************************************************)
EXTENDS FiniteSets, Integers, Sequences, TLC

VARIABLES
    tick,     \* the ProgressTicker object (its four fields)
    trace,    \* the observable events so far, oldest first
    source,   \* the iterable handed to progress_iterable
    frame     \* the generator frame of progress_iterable

vars == <<tick, trace, source, frame>>

\* ------------------------------------------------------------------ bounds
MaxCalls == 3     \* calls made on the ticker in Spec
MaxTick == 1      \* largest num_ticks passed to __call__
MaxTotal == 3     \* largest num_total
MaxLen == 3       \* longest input of progress_iterable

\* ------------------------------------------------------------------ values
None == "None"                       \* Python's None
Handler == "handler"                 \* a ProgressHandler supplied by the caller
Descriptions == {"", "Loading "}     \* description arguments
Ticks == (0 - 1)..MaxTick            \* num_ticks arguments (any int is accepted)
Totals == (0 - 1)..MaxTotal          \* num_total arguments (not validated)
Elems == {"a", "b"}                  \* items of the input
Unbound == [unbound |-> TRUE]        \* a name not bound yet

\* ------------------------------------------------------------------ events
\* call: a method of the ticker is entered; log: logger.info; callback: the
\* callback is invoked with snapshot p and raises or not; return / raise: how
\* the method ends for its caller; next, yield, stop: the generator is
\* resumed, hands an item over, ends; new, wrap: the constructor and
\* progress_iterable are called with these arguments.
CallEv(op, n) == [kind |-> "call", op |-> op, n |-> n]
LogEv(msg) == [kind |-> "log", msg |-> msg]
CbEv(p, raises) == [kind |-> "callback", p |-> p, raised |-> raises]
ReturnEv == [kind |-> "return"]
RaiseEv == [kind |-> "raise"]
NextEv == [kind |-> "next"]
YieldEv(item) == [kind |-> "yield", item |-> item]
StopEv == [kind |-> "stop"]
NewEv(t) == [kind |-> "new", callback |-> t.callback,
             num_total |-> t.num_total, description |-> t.description]

\* --------------------------------------------------------- Progress, ticker
Progress(total_items, completed_items, description) ==
    [percent |-> None, description |-> description,
     total_items |-> total_items, completed_items |-> completed_items]

ProgressTicker(callback, num_total, description) ==
    [callback |-> callback, description |-> description,
     num_total |-> num_total, num_complete |-> 0]

\* logger.info("%s%s/%s", description, str(completed), str(total))
LogInfo(description, completed_items, total_items) ==
    description \o ToString(completed_items) \o "/" \o ToString(total_items)

\* Variant of AddTicks: the count is clamped at the total.
AddTicksClamped(t, num_ticks) ==
    [t EXCEPT !.num_complete =
        IF @ + num_ticks > t.num_total THEN t.num_total ELSE @ + num_ticks]

\* Variant of AddTicks: "=" written for "+=".
AddTicksAssigned(t, num_ticks) ==
    [t EXCEPT !.num_complete = num_ticks]

\* self._num_complete += num_ticks
AddTicks(t, num_ticks) ==
    [t EXCEPT !.num_complete = @ + num_ticks]

\* Variant of Report: the log record is written after the callback.
ReportLogLast(t, raises) ==
    LET p == Progress(t.num_total, t.num_complete, t.description)
    IN  <<CbEv(p, raises)>> \o
        (IF p.description # ""
         THEN <<LogEv(LogInfo(p.description, p.completed_items, p.total_items))>>
         ELSE <<>>)

\* The body of "if self._callback is not None:" in __call__: the snapshot,
\* the log record when the description is non-empty, then the callback.
\* raises: whether this invocation of the callback raises.
Report(t, raises) ==
    LET p == Progress(t.num_total, t.num_complete, t.description)
    IN  (IF p.description # ""
         THEN <<LogEv(LogInfo(p.description, p.completed_items, p.total_items))>>
         ELSE <<>>)
        \o <<CbEv(p, raises)>>

\* Variant of TickerCall: the count is restored when the callback raises.
TickerCallRollback(t, num_ticks, raises) ==
    LET t1 == AddTicks(t, num_ticks)
    IN  IF t1.callback # None
        THEN [tick |-> IF raises THEN t ELSE t1,
              out |-> Report(t1, raises), raised |-> raises]
        ELSE [tick |-> t1, out |-> <<>>, raised |-> FALSE]

\* ProgressTicker.__call__(num_ticks): the ticker afterwards, the events
\* emitted, and whether an exception leaves the method (nothing catches what
\* the callback raises).
TickerCall(t, num_ticks, raises) ==
    LET t1 == AddTicks(t, num_ticks)
    IN  IF t1.callback # None
        THEN [tick |-> t1, out |-> Report(t1, raises), raised |-> raises]
        ELSE [tick |-> t1, out |-> <<>>, raised |-> FALSE]

\* Variant of DoneSnapshot: the running count is reported.
DoneSnapshotActual(t) ==
    Progress(t.num_total, t.num_complete, t.description)

\* The snapshot done() builds.
DoneSnapshot(t) ==
    Progress(t.num_total, t.num_total, t.description)

\* Variant of TickerDone: no test for a missing callback.
TickerDoneUnguarded(t, raises) ==
    [tick |-> t, out |-> <<CbEv(DoneSnapshot(t), raises)>>, raised |-> raises]

\* Variant of TickerDone: the stored count is set to the total.
TickerDoneCompletes(t, raises) ==
    IF t.callback # None
    THEN [tick |-> [t EXCEPT !.num_complete = t.num_total],
          out |-> <<CbEv(DoneSnapshot(t), raises)>>, raised |-> raises]
    ELSE [tick |-> [t EXCEPT !.num_complete = t.num_total],
          out |-> <<>>, raised |-> FALSE]

\* ProgressTicker.done()
TickerDone(t, raises) ==
    IF t.callback # None
    THEN [tick |-> t, out |-> <<CbEv(DoneSnapshot(t), raises)>>, raised |-> raises]
    ELSE [tick |-> t, out |-> <<>>, raised |-> FALSE]

\* How a call ends for its caller.
Outcome(raised) == IF raised THEN RaiseEv ELSE ReturnEv

\* ------------------------------------------------------------ Spec: ticker
IsCall(e) == e.kind = "call"
NumCalls == Len(SelectSeq(trace, IsCall))

Init ==
    /\ tick \in {ProgressTicker(cb, total, d) :
                    cb \in {None, Handler}, total \in Totals, d \in Descriptions}
    /\ trace = <<NewEv(tick)>>
    /\ source = Unbound
    /\ frame = Unbound

\* tick(num_ticks)
Increment(num_ticks, raises) ==
    /\ NumCalls < MaxCalls
    /\ LET r == TickerCall(tick, num_ticks, raises)
       IN  /\ tick' = r.tick
           /\ trace' = trace \o <<CallEv("tick", num_ticks)>> \o r.out
                             \o <<Outcome(r.raised)>>
    /\ UNCHANGED <<source, frame>>

\* tick.done()
Done(raises) ==
    /\ NumCalls < MaxCalls
    /\ LET r == TickerDone(tick, raises)
       IN  /\ tick' = r.tick
           /\ trace' = trace \o <<CallEv("done", 0)>> \o r.out
                             \o <<Outcome(r.raised)>>
    /\ UNCHANGED <<source, frame>>

Next ==
    \/ \E n \in Ticks, raises \in BOOLEAN : Increment(n, raises)
    \/ \E raises \in BOOLEAN : Done(raises)

Spec == Init /\ [][Next]_vars

\* ------------------------------------------ SpecIter: progress_iterable
NoTotal == <<>>      \* num_total is None; an explicit total n is <<n>>

WrapEv(num_total) == [kind |-> "wrap", num_total |-> num_total]

\* list(iterable): a list is copied; a single-pass iterator gives what it
\* has not produced yet ...
ListOf(src) ==
    IF src.single_pass
    THEN SubSeq(src.items, src.pos + 1, Len(src.items))
    ELSE src.items

\* ... and is left at its end.
Drained(src) ==
    IF src.single_pass THEN [src EXCEPT !.pos = Len(src.items)] ELSE src

\* if num_total is None: num_total = len(list(iterable))
ResolveTotal(num_total, src) ==
    IF num_total = NoTotal THEN Len(ListOf(src)) ELSE num_total[1]

\* The statements before the loop, run by the first next(): the total, the
\* ticker, and iter(iterable) for the for statement. iter() of a list is a
\* new iterator at index 0 (frame.it); iter() of a single-pass iterator is
\* the iterator itself, whose position is source.pos.
Setup(f, src) ==
    LET total == ResolveTotal(f.num_total, src)
    IN  [frame |-> [f EXCEPT !.pc = "running", !.num_total = <<total>>, !.it = 0],
         source |-> IF f.num_total = NoTotal THEN Drained(src) ELSE src,
         tick |-> ProgressTicker(f.progress, total, f.description)]

\* next() of the for statement's iterator
HasNext(f, src) ==
    IF src.single_pass THEN src.pos < Len(src.items) ELSE f.it < Len(src.items)

NextItem(f, src) ==
    IF src.single_pass THEN src.items[src.pos + 1] ELSE src.items[f.it + 1]

\* Variant of LoopBody: the item is yielded before the tick.
LoopBodyYieldFirst(t, item, raises) ==
    LET r == TickerCall(t, 1, raises)
    IN  [tick |-> r.tick,
         out |-> <<YieldEv(item), CallEv("tick", 1)>> \o r.out
                 \o <<Outcome(r.raised)>>,
         raised |-> r.raised]

\* tick(1); yield item
LoopBody(t, item, raises) ==
    LET r == TickerCall(t, 1, raises)
    IN  [tick |-> r.tick,
         out |-> <<CallEv("tick", 1)>> \o r.out \o <<Outcome(r.raised)>>
                 \o (IF r.raised THEN <<>> ELSE <<YieldEv(item)>>),
         raised |-> r.raised]

\* Variant of Exhausted: done() is called on the ticker before returning.
ExhaustedDone(t) ==
    LET r == TickerDone(t, FALSE)
    IN  <<CallEv("done", 0)>> \o r.out \o <<Outcome(r.raised)>> \o <<StopEv>>

\* The for statement finds its iterator exhausted: the generator returns
\* (StopIteration for its consumer) and calls nothing more.
Exhausted(t) ==
    <<StopEv>>

\* One next() on the generator: from where it stands to the next yield, to
\* its return, or to an exception of the callback leaving it.
Resume(f, src, t, raises) ==
    LET s == IF f.pc = "created"
             THEN Setup(f, src)
             ELSE [frame |-> f, source |-> src, tick |-> t]
    IN  IF ~HasNext(s.frame, s.source)
        THEN [frame |-> [s.frame EXCEPT !.pc = "exhausted"],
              source |-> s.source,
              tick |-> s.tick,
              out |-> <<NextEv>> \o Exhausted(s.tick)]
        ELSE LET b == LoopBody(s.tick, NextItem(s.frame, s.source), raises)
             IN  [frame |-> [s.frame EXCEPT
                                !.pc = IF b.raised THEN "failed" ELSE "suspended",
                                !.it = IF s.source.single_pass THEN @ ELSE @ + 1],
                  source |-> IF s.source.single_pass
                             THEN [s.source EXCEPT !.pos = @ + 1]
                             ELSE s.source,
                  tick |-> b.tick,
                  out |-> <<NextEv>> \o b.out]

Inputs == UNION {[1..n -> Elems] : n \in 0..MaxLen}

InitIter ==
    /\ source \in [items : Inputs, single_pass : BOOLEAN, pos : {0}]
    /\ frame \in [pc : {"created"}, progress : {None, Handler},
                  num_total : {NoTotal} \cup {<<n>> : n \in 0..MaxTotal},
                  description : Descriptions, it : {0}]
    /\ tick = Unbound
    /\ trace = <<WrapEv(frame.num_total)>>

\* The consumer calls next() on the generator.
Pull(raises) ==
    /\ frame.pc \in {"created", "suspended"}
    /\ LET r == Resume(frame, source, tick, raises)
       IN  /\ frame' = r.frame
           /\ source' = r.source
           /\ tick' = r.tick
           /\ trace' = trace \o r.out

NextIter == \E raises \in BOOLEAN : Pull(raises)

SpecIter == InitIter /\ [][NextIter]_vars

\* ------------------------------------------------- reading the trace
Idx == 1..Len(trace)
IsCallAt(i) == trace[i].kind = "call"
IsTickCall(i) == IsCallAt(i) /\ trace[i].op = "tick"
IsDoneCall(i) == IsCallAt(i) /\ trace[i].op = "done"
IsCb(i) == trace[i].kind = "callback"
IsLog(i) == trace[i].kind = "log"
IsYield(i) == trace[i].kind = "yield"
TickCalls == {i \in Idx : IsTickCall(i)}
DoneCalls == {i \in Idx : IsDoneCall(i)}
Cbs == {i \in Idx : IsCb(i)}

\* The events produced during the call entered at event i: those after i and
\* before the next call.
During(i) == {j \in (i + 1)..Len(trace) : \A k \in (i + 1)..j : ~IsCallAt(k)}
CbsOf(i) == {j \in During(i) : IsCb(j)}
LogsOf(i) == {j \in During(i) : IsLog(j)}

\* The sum of the num_ticks of the __call__ calls among the first i events.
RECURSIVE SumTicks(_)
SumTicks(i) ==
    IF i = 0 THEN 0
    ELSE SumTicks(i - 1) + (IF IsTickCall(i) THEN trace[i].n ELSE 0)

\* The arguments the ticker of Spec was constructed with.
CtorTotal == trace[1].num_total
CtorDescription == trace[1].description
CtorCallback == trace[1].callback

\* ------------------------------------------------------------- claims, Spec

\* C3: with a callback, every Increment delivers exactly one snapshot; its
\* completed_items is the sum of the increment sizes so far (never clamped
\* against the total), its total_items and description are those given at
\* construction.
C3_SnapshotCarriesRunningSum ==
    CtorCallback # None =>
        \A i \in TickCalls :
            /\ Cardinality(CbsOf(i)) = 1
            /\ \A j \in CbsOf(i) :
                /\ trace[j].p.completed_items = SumTicks(i)
                /\ trace[j].p.total_items = CtorTotal
                /\ trace[j].p.description = CtorDescription

\* C3 witness: a second or later Increment whose snapshot exceeds the total.
C3_Witness ==
    /\ CtorCallback # None
    /\ CtorTotal >= 1
    /\ \E i \in TickCalls :
        /\ \E i0 \in TickCalls : i0 < i /\ SumTicks(i0) <= CtorTotal
        /\ \E j \in CbsOf(i) : trace[j].p.completed_items > CtorTotal

\* C4: with a callback, every Done invokes the callback exactly once, with
\* completed_items = total_items = the constructor total and the stored
\* description, whatever the running count is.
C4_DoneReportsTotal ==
    CtorCallback # None =>
        \A i \in DoneCalls :
            /\ Cardinality(CbsOf(i)) = 1
            /\ \A j \in CbsOf(i) :
                trace[j].p = Progress(CtorTotal, CtorTotal, CtorDescription)

\* C4 witness: Done called while the running count is above the total.
C4_Witness ==
    /\ CtorCallback # None
    /\ \E i \in DoneCalls : SumTicks(i) > CtorTotal /\ CbsOf(i) # {}

\* C5: without a callback no call invokes a callback, logs, or raises; the
\* ticker's count is the sum of the increment sizes and nothing else changed.
C5_NoCallbackOnlyCounts ==
    CtorCallback = None =>
        /\ \A i \in Idx : trace[i].kind \in {"new", "call", "return"}
        /\ tick = [callback |-> None, description |-> CtorDescription,
                   num_total |-> CtorTotal,
                   num_complete |-> SumTicks(Len(trace))]

\* C5 witness: a ticker without callback after an Increment and a Done.
C5_Witness ==
    /\ CtorCallback = None
    /\ CtorDescription # ""
    /\ \E i \in TickCalls : trace[i].n > 0
    /\ DoneCalls # {}
    /\ tick.num_complete > 0

\* C9: Done leaves the stored count alone: the count is the sum of the
\* increment sizes, every Increment snapshot carries the sum of the increment
\* sizes up to it as if no Done had been called, and every Done call (with a
\* callback) invokes the callback with one and the same snapshot, whose
\* completed_items equals its total_items.
C9_DoneKeepsCount ==
    /\ tick.num_complete = SumTicks(Len(trace))
    /\ \A i \in TickCalls : \A j \in CbsOf(i) :
            trace[j].p.completed_items = SumTicks(i)
    /\ \A i \in DoneCalls :
        /\ CtorCallback # None => CbsOf(i) # {}
        /\ \A j \in CbsOf(i) :
            /\ trace[j].p.completed_items = trace[j].p.total_items
            /\ \A i2 \in DoneCalls : \A j2 \in CbsOf(i2) : trace[j2].p = trace[j].p

\* C9 witness: Done, a non-zero Increment, Done again, the count off the total.
C9_Witness ==
    /\ CtorCallback # None
    /\ tick.num_complete # tick.num_total
    /\ \E i \in DoneCalls, k \in TickCalls, i2 \in DoneCalls :
        i < k /\ k < i2 /\ trace[k].n # 0

\* C10: an exception of the callback leaves the call (Increment or Done) as it
\* is; the count keeps the n of the failed Increment, so the next Increment(m)
\* whose callback returns reports the failed snapshot's count plus m; and the
\* stored count is the count of the last Increment snapshot, whichever calls
\* raised, Done included.
C10_RaisePropagatesNoRollback ==
    /\ \A j \in Cbs :
        /\ j < Len(trace)
        /\ trace[j + 1] = IF trace[j].raised THEN RaiseEv ELSE ReturnEv
    /\ \A i \in TickCalls, i2 \in TickCalls :
        (i < i2 /\ \A k \in TickCalls : ~(i < k /\ k < i2)) =>
            \A j \in CbsOf(i), j2 \in CbsOf(i2) :
                (trace[j].raised /\ ~trace[j2].raised) =>
                    trace[j2].p.completed_items
                        = trace[j].p.completed_items + trace[i2].n
    /\ \A i \in TickCalls :
        (\A k \in TickCalls : k <= i) =>
            \A j \in CbsOf(i) : tick.num_complete = trace[j].p.completed_items
    /\ (CtorCallback # None /\ TickCalls = {}) => tick.num_complete = 0

\* C10 witness: an Increment whose callback raised, a Done whose callback
\* raised, then an Increment whose callback returned.
C10_Witness ==
    \E i \in TickCalls, d \in DoneCalls, i2 \in TickCalls :
        /\ i < d /\ d < i2
        /\ trace[i].n > 0 /\ trace[i2].n > 0
        /\ \E j \in CbsOf(i) : trace[j].raised
        /\ \E j \in CbsOf(d) : trace[j].raised
        /\ \E j \in CbsOf(i2) : ~trace[j].raised

\* The text of the log record an Increment at event i should produce.
ExpectedLog(i) ==
    CtorDescription \o ToString(SumTicks(i)) \o "/" \o ToString(CtorTotal)

\* C2 as stated: a non-empty description alone makes every Increment emit
\* exactly one log record "<description><completed>/<total>" with the updated
\* count, with or without a callback, before the callback when there is one.
C2_LogWheneverDescribed ==
    CtorDescription # "" =>
        \A i \in TickCalls :
            /\ Cardinality(LogsOf(i)) = 1
            /\ \A j \in LogsOf(i) :
                /\ trace[j].msg = ExpectedLog(i)
                /\ \A c \in CbsOf(i) : j < c

\* C2 amended: an Increment emits a log record exactly when the ticker has a
\* callback and a non-empty description; then it emits exactly one, of the
\* form "<description><completed>/<total>" with the updated count, right
\* before the callback is invoked. Without a callback nothing is logged.
C2_LogIffCallbackAndDescription ==
    \A i \in TickCalls :
        IF CtorCallback # None /\ CtorDescription # ""
        THEN /\ LogsOf(i) = {i + 1}
             /\ trace[i + 1] = LogEv(ExpectedLog(i))
             /\ CbsOf(i) = {i + 2}
        ELSE LogsOf(i) = {}

\* C2 witness: total 3, description "Loading ", three Increments of 1.
C2_Witness ==
    /\ CtorCallback # None
    /\ Cardinality(TickCalls) = 3
    /\ \E i1 \in TickCalls, i2 \in TickCalls, i3 \in TickCalls :
        /\ i1 < i2 /\ i2 < i3
        /\ trace[i1 + 1] = LogEv("Loading 1/3") /\ IsCb(i1 + 2)
        /\ trace[i2 + 1] = LogEv("Loading 2/3") /\ IsCb(i2 + 2)
        /\ trace[i3 + 1] = LogEv("Loading 3/3") /\ IsCb(i3 + 2)

\* The call made by the step under consideration.
StepCall == trace'[Len(trace) + 1]

\* C7 as stated: the stored count starts at 0 and no call, whatever its
\* increment size, ever makes it smaller.
C7_CountNeverDecreases ==
    /\ tick.num_complete = 0
    /\ [][tick'.num_complete >= tick.num_complete]_vars

\* C7 amended: the stored count starts at 0; an Increment(n) with n >= 0
\* never makes it smaller, and Done never changes it (it is never reset). An
\* Increment with a negative n, which the operation accepts, lowers it.
C7_CountNeverDecreasesForNonNegative ==
    /\ tick.num_complete = 0
    /\ [][/\ (StepCall.op = "tick" /\ StepCall.n >= 0)
                => tick'.num_complete >= tick.num_complete
          /\ StepCall.op = "done" => tick'.num_complete = tick.num_complete]_vars

\* C7 witness: the count is positive after two positive Increments and a
\* Done between them.
C7_Witness ==
    /\ tick.num_complete > 0
    /\ DoneCalls # {}
    /\ \A i \in TickCalls : trace[i].n >= 0
    /\ \E i \in TickCalls, d \in DoneCalls, i2 \in TickCalls :
        i < d /\ d < i2 /\ trace[i].n > 0 /\ trace[i2].n > 0

\* --------------------------------------------------------- claims, SpecIter
\* The arguments progress_iterable was called with.
ArgTotal == trace[1].num_total
InputLen == Len(source.items)

\* The number of events of a kind among the first i events.
CountTo(kind, i) == Cardinality({j \in 1..i : trace[j].kind = kind})

\* The items handed to the consumer, in order.
YieldIdx == {i \in Idx : IsYield(i)}
Yielded ==
    [k \in 1..Cardinality(YieldIdx) |->
        trace[CHOOSE i \in YieldIdx : CountTo("yield", i) = k].item]

\* The callback invocation that is the k-th one.
KthCb(k) == CHOOSE j \in Cbs : CountTo("callback", j) = k

IsPrefix(s, t) == Len(s) <= Len(t) /\ s = SubSeq(t, 1, Len(s))

\* Every item handed over so far was preceded, within its next(), by exactly
\* one Increment(1) and nothing else was called on the ticker.
OneTickPerYield ==
    /\ \A i \in Idx : IsCallAt(i) => trace[i].op = "tick" /\ trace[i].n = 1
    /\ \A y \in YieldIdx : CountTo("call", y) = CountTo("yield", y)

\* C1: with no explicit total, an input of length L (a list or a single-pass
\* iterator alike) is handed over whole and in order once the generator is
\* exhausted, one Increment(1) before each item, every snapshot with
\* total_items = L.
C1_NoTotalYieldsWholeInput ==
    ArgTotal = NoTotal =>
        /\ IsPrefix(Yielded, source.items)
        /\ OneTickPerYield
        /\ \A j \in Cbs : trace[j].p.total_items = InputLen
        /\ frame.pc = "exhausted" => Yielded = source.items

\* C6: with an explicit total E, whatever the input's length L: the items
\* come in input order, all L of them once the generator is exhausted, one
\* Increment(1) before each; every snapshot has total_items = E; the k-th
\* snapshot has completed_items = k, unclamped; Done is never called, so the
\* last snapshot after exhaustion carries L.
C6_ExplicitTotalKept ==
    ArgTotal # NoTotal =>
        /\ IsPrefix(Yielded, source.items)
        /\ OneTickPerYield
        /\ \A j \in Cbs :
            /\ trace[j].p.total_items = ArgTotal[1]
            /\ trace[j].p.completed_items = CountTo("callback", j)
        /\ frame.pc = "exhausted" =>
            /\ Yielded = source.items
            /\ frame.progress # None => Cardinality(Cbs) = InputLen
            /\ (frame.progress # None /\ InputLen > 0) =>
                trace[KthCb(InputLen)].p.completed_items = InputLen
            /\ tick.num_complete = InputLen

\* C6 witness: an input longer than the explicit total, read to its end with
\* a callback.
C6_Witness ==
    /\ ArgTotal # NoTotal
    /\ frame.pc = "exhausted"
    /\ frame.progress # None
    /\ source.single_pass
    /\ InputLen > ArgTotal[1]
    /\ ArgTotal[1] > 0
    /\ Cardinality(Cbs) = InputLen

\* C8: with a callback, at every point of the run the callback invocations
\* are as many as the items handed over, or one more (the callback for an
\* item comes before the item); between two callback invocations an item is
\* handed over and the consumer calls next() again; and a consumer holding k
\* items has caused exactly k invocations, with completed_items 1..k.
C8_CallbackThenItemThenPull ==
    frame.progress # None =>
        /\ \A i \in 0..Len(trace) :
            CountTo("callback", i) - CountTo("yield", i) \in {0, 1}
        /\ \A j \in Cbs, j2 \in Cbs :
            j < j2 => \E y \in YieldIdx, n \in Idx :
                        /\ trace[n].kind = "next"
                        /\ j < y /\ y < n /\ n < j2
        /\ frame.pc = "suspended" =>
            /\ Cardinality(Cbs) = Len(Yielded)
            /\ \A j \in Cbs : trace[j].p.completed_items = CountTo("callback", j)

\* C8 witness: the consumer holds two items of three and has not pulled again.
C8_Witness ==
    /\ frame.progress # None
    /\ frame.pc = "suspended"
    /\ Len(Yielded) = 2
    /\ InputLen = 3
    /\ Cardinality(Cbs) = 2

====
